---------------------------- MODULE Spec2Model ----------------------------
(***************************************************************************)
(* luxCompute: the chain watcher (monitorBlockchain) and the ledger        *)
(* handlers (handleRent, checkRealBalance, handleDeposit, handleCreateJob) *)
(* over the PostgreSQL tables agents, providers, a2a_jobs, activity_log.   *)
(*                                                                         *)
(* Amounts are written in units of 5*10^13 wei, so that the seeded prices  *)
(* (10^16, 5*10^15, 2*10^16 wei) are 200, 100 and 400, the mock deposit of *)
(* 10^18 wei is 20000, and the largest BIGINT, 2^63-1, is 184467.  Every    *)
(* amount of the model is a multiple of 100 units, so the division by 100  *)
(* of the fee is the same on the scaled and on the unscaled amount.        *)
(***************************************************************************)
EXTENDS Integers, Sequences, FiniteSets, TLC

\* ------------------------------------------------------------------ bounds
MaxHead     == 13   \* the chain grows up to this height
MaxCrashes  == 1    \* process crashes (and restarts) in one behaviour
MaxRequests == 2    \* client requests accepted in one behaviour
MaxFaults   == 1    \* injected database statement failures in one behaviour
MaxSample   == 250  \* SpecFee: prices up to this, and down to this below MaxInt64

\* ------------------------------------------------------- program constants
Depth      == 10       \* lastBlock = current - 10
MaxInt64   == 184467   \* BIGINT: 2^63-1 wei, in units
PriceAlpha == 200      \* NODE_ALPHA   10000000000000000 wei
PriceBravo == 100      \* NODE_BRAVO    5000000000000000 wei
PriceCharlie == 400    \* NODE_CHARLIE 20000000000000000 wei
FeeDivisor == 100      \* feeAmount.Div(feeAmount, big.NewInt(100))
RecentLimit == 20      \* ORDER BY id DESC LIMIT 20
DepositAmount == 20000 \* handleDeposit: 10^18 wei
JobCost    == 200      \* handleCreateJob: 10^16 wei
JobFeeMul  == 100      \* feeAmount.Mul(feeAmount, big.NewInt(100))
JobFeeDiv  == 10000    \* feeAmount.Div(feeAmount, big.NewInt(10000))

NoAddr   == "nil"      \* tx.To() == nil: a contract creation
Handlers == {1, 2}     \* concurrently served HTTP requests

\* --------------------------------------------------------------- the chain
\* Addresses of the chain, and their spelling by common.Address.Hex()
\* (EIP-55, mixed case); a browser wallet spells the same address in lower case.
Hex(a) ==
  CASE a = "alice" -> "0xA1"
    [] a = "bob"   -> "0xB2"
    [] a = "owner" -> "0x0W"
    [] a = "other" -> "0xD4"
    [] OTHER       -> a

ownerWallet == "0x0W"

WalletStrs ==
  {"0xA1", "0xa1", "0xB2", "0xProvider1...", "0xProvider2...", "0xProvider3...",
   "0xProvider4..."}

Tx(hash, from, to, value) == [hash |-> hash, from |-> from, to |-> to, value |-> value]

\* BlockAt(height): the transactions of the block, as the node serves them.
BlockAt(h) ==
  CASE h = 2  -> << Tx("t1", "alice", "owner", 200) >>
    [] h = 3  -> << Tx("t2", "bob", "other", 100),
                    Tx("t3", "bob", "owner", 0),
                    Tx("t4", "bob", NoAddr, 100),
                    Tx("t5", "bob", "owner", 200000) >>
    [] h = 11 -> << Tx("t6", "alice", "owner", 100) >>
    [] h = 12 -> << Tx("t7", "bob", "owner", 100) >>
    [] OTHER  -> << >>

Hashes == {"t1", "t2", "t3", "t4", "t5", "t6", "t7"}

\* ------------------------------------------------------------ the database
\* providers, as seedProviders leaves it.
Providers ==
  { [node_id |-> "NODE_ALPHA",   wallet |-> "0xProvider1...", status |-> "ONLINE", price_wei |-> PriceAlpha],
    [node_id |-> "NODE_BRAVO",   wallet |-> "0xProvider2...", status |-> "ONLINE", price_wei |-> PriceBravo],
    [node_id |-> "NODE_CHARLIE", wallet |-> "0xProvider3...", status |-> "ONLINE", price_wei |-> PriceCharlie] }

\* A row that is not seeded: the program only ever inserts the three rows
\* above, and only into an empty table; every other row of providers is put
\* there, and has its status set, by the operator of the database.
OperatorProviders ==
  { [node_id |-> "NODE_DELTA",   wallet |-> "0xProvider4...", status |-> "OFFLINE", price_wei |-> PriceBravo] }

\* The table providers.
ProviderRows == Providers \cup OperatorProviders

\* SELECT price_wei FROM providers WHERE node_id = $1, scanned into an int64
\* that starts at 0: no row leaves it 0.  The status is not asked for.
SelectPrice(id) ==
  IF \E p \in ProviderRows : p.node_id = id
    THEN (CHOOSE p \in ProviderRows : p.node_id = id).price_wei
    ELSE 0

\* SELECT ... FROM providers WHERE status = 'ONLINE' (getProviders)
OnlineProviders == {p \in ProviderRows : p.status = "ONLINE"}

\* agents is a function from the wallets that have a row to their balance;
\* a2a_jobs is the sequence of committed rows, activity_log the number of rows.

\* A lookup that answers -1, an error, for a wallet without a row.
SelectBalanceOrError(tbl, w) == IF w \in DOMAIN tbl THEN tbl[w] ELSE -1

\* SELECT balance FROM agents WHERE wallet = $1, scanned into an int64 that
\* starts at 0 (the Scan error is dropped): no row leaves it 0.
SelectBalance(tbl, w) == IF w \in DOMAIN tbl THEN tbl[w] ELSE 0

BigintOK(v) == v >= -MaxInt64 - 1 /\ v <= MaxInt64

Put(tbl, w, v) == [x \in (DOMAIN tbl) \cup {w} |-> IF x = w THEN v ELSE tbl[x]]

\* INSERT INTO agents (wallet, balance) VALUES ($1, $2)
\*   ON CONFLICT (wallet) DO UPDATE SET balance = agents.balance + $2
\* fails when $2 or the sum is out of range for BIGINT.
UpsertFails(tbl, w, amt) ==
  \/ ~BigintOK(amt)
  \/ w \in DOMAIN tbl /\ ~BigintOK(tbl[w] + amt)

Upsert(tbl, w, amt) ==
  IF w \in DOMAIN tbl THEN Put(tbl, w, tbl[w] + amt) ELSE Put(tbl, w, amt)

\* UPDATE agents SET balance = balance - $1 WHERE wallet = $2: no row is
\* updated when there is none; there is no CHECK (balance >= 0).
UpdateFails(tbl, w, amt) == w \in DOMAIN tbl /\ ~BigintOK(tbl[w] - amt)

Update(tbl, w, amt) ==
  IF w \in DOMAIN tbl THEN Put(tbl, w, tbl[w] - amt) ELSE tbl

\* The rows of tbl as a transaction with the pending writes wr sees them, and
\* as they are once it commits.
Overlay(tbl, wr) ==
  [x \in (DOMAIN tbl) \cup (DOMAIN wr) |-> IF x \in DOMAIN wr THEN wr[x] ELSE tbl[x]]

EmptyTbl == [x \in {} |-> 0]

\* The sum of f over the set S, and the elements of a sequence.
RECURSIVE SumF(_, _)
SumF(S, f) ==
  IF S = {} THEN 0
  ELSE LET x == CHOOSE y \in S : TRUE IN f[x] + SumF(S \ {x}, f)

Range(seq) == {seq[i] : i \in 1..Len(seq)}

\* ------------------------------------------------------------------ state
VARIABLES
  up,            \* the process is running
  head,          \* height of the chain's latest block
  agents,        \* table agents: wallet -> balance, committed rows
  a2a_jobs,      \* table a2a_jobs: committed rows, in commit order
  jobSeq,        \* the SERIAL sequence of a2a_jobs.id
  activity_log,  \* table activity_log: number of committed rows
  wpc,           \* monitorBlockchain: where the goroutine is
  lastBlock,     \* monitorBlockchain: var lastBlock int64
  current,       \* monitorBlockchain: current := header.Number.Int64()
  b,             \* monitorBlockchain: the loop variable b
  txi,           \* monitorBlockchain: index of tx in block.Transactions()
  hs,            \* the HTTP handlers in flight: locals, open transaction, response
  crashes,       \* number of process crashes so far
  requests,      \* number of client requests accepted so far
  faults,        \* number of injected statement failures so far
  credited,      \* history: per chain transaction, the credits applied for it
  attempted,     \* history: per chain transaction, the credits issued for it
  crashCursor,   \* history: lastBlock when the process last died (0: never set)
  startCursor,   \* history: the cursor this run of the watcher started from
  fetchErr,      \* history: the latest fetch failure, until the next fetch
  ver,           \* history: per wallet, the number of committed writes of its row
  deposited,     \* history: per wallet, the mock deposits applied (handleDeposit)
  jobsPaid       \* history: per wallet, the job costs debited (handleCreateJob)

wvars == <<wpc, lastBlock, current, b, txi>>
dbvars == <<agents, a2a_jobs, jobSeq, activity_log>>
hist == <<credited, attempted, crashCursor, startCursor, fetchErr, ver, deposited, jobsPaid>>
vars == <<up, head, agents, a2a_jobs, jobSeq, activity_log, wpc, lastBlock,
          current, b, txi, hs, crashes, requests, faults, credited, attempted,
          crashCursor, startCursor, fetchErr, ver, deposited, jobsPaid>>

NoErr == [kind |-> "none", height |-> 0]

\* A handler slot that serves no request.
Idle ==
  [pc |-> "idle", kind |-> "none", RenterWallet |-> "", ProviderID |-> "",
   ProviderWallet |-> "", renterBal |-> 0, priceWei |-> 0, feeAmount |-> 0,
   readVer |-> 0, txOpen |-> FALSE, txFailed |-> FALSE, wr |-> EmptyTbl,
   jobs |-> << >>, logs |-> 0, committed |-> FALSE, resp |-> "none",
   limit |-> 0, body |-> << >>]

Init ==
  /\ up = TRUE
  /\ head = Depth + 1
  /\ agents = EmptyTbl
  /\ a2a_jobs = << >>
  /\ jobSeq = 0
  /\ activity_log = 0
  /\ wpc = "head"
  /\ lastBlock = 0
  /\ current = 0
  /\ b = 0
  /\ txi = 0
  /\ hs = [h \in Handlers |-> Idle]
  /\ crashes = 0
  /\ requests = 0
  /\ faults = 0
  /\ credited = [t \in Hashes |-> 0]
  /\ attempted = [t \in Hashes |-> 0]
  /\ crashCursor = 0
  /\ startCursor = 0
  /\ fetchErr = NoErr
  /\ ver = [w \in WalletStrs |-> 0]
  /\ deposited = [w \in WalletStrs |-> 0]
  /\ jobsPaid = [w \in WalletStrs |-> 0]

\* A row of agents is locked by an open transaction that wrote it: a writer
\* of the same row waits until that transaction ends.
\* No row lock at all: a writer never waits for an open transaction.
LockedNever(w) == FALSE

LockedBy(h, w) == hs[h].txOpen /\ w \in DOMAIN hs[h].wr
Locked(w) == \E h \in Handlers : LockedBy(h, w)
LockedByOther(h, w) == \E o \in Handlers \ {h} : LockedBy(o, w)

Bump(v, ws) == [w \in WalletStrs |-> IF w \in ws THEN v[w] + 1 ELSE v[w]]

\* ------------------------------------------------------------ the chain
\* A new block is mined.
ChainAdvance ==
  /\ head < MaxHead
  /\ head' = head + 1
  /\ UNCHANGED <<up, dbvars, wvars, hs, crashes, requests, faults, hist>>

\* ------------------------------------------------- process crash, restart
\* The process dies: goroutine and handler locals are lost, open transactions
\* are rolled back by the server; the tables stay.
Die(err) ==
  /\ up' = FALSE
  /\ crashes' = crashes + 1
  /\ wpc' = "down"
  /\ lastBlock' = 0
  /\ current' = 0
  /\ b' = 0
  /\ txi' = 0
  /\ hs' = [h \in Handlers |-> Idle]
  /\ crashCursor' = IF lastBlock # 0 THEN lastBlock ELSE crashCursor
  /\ fetchErr' = err
  /\ UNCHANGED <<head, dbvars, requests, faults, credited, attempted, startCursor, ver, deposited, jobsPaid>>

Crash ==
  /\ up
  /\ crashes < MaxCrashes
  /\ Die(NoErr)

\* main(): initSchema and seedProviders find the tables there;
\* go monitorBlockchain() starts with var lastBlock int64 = 0.
Restart ==
  /\ ~up
  /\ up' = TRUE
  /\ wpc' = "head"
  /\ startCursor' = 0
  /\ fetchErr' = NoErr
  /\ UNCHANGED <<head, dbvars, lastBlock, current, b, txi, hs, crashes, requests,
                 faults, credited, attempted, crashCursor, ver, deposited, jobsPaid>>

\* ------------------------------------------------------ monitorBlockchain
\* A test without the value condition: any transfer to ownerWallet passes.
QualifiesAnyValue(tx) == tx.to # NoAddr /\ Hex(tx.to) = ownerWallet

\* tx.To() != nil && tx.To().Hex() == ownerWallet && tx.Value().Sign() > 0
Qualifies(tx) == tx.to # NoAddr /\ Hex(tx.to) = ownerWallet /\ tx.value > 0

\* if lastBlock == 0 { lastBlock = current - 10 }
StartFrom(last, cur) == IF last = 0 THEN cur - Depth ELSE last

\* A loop that stops one block short of the head: b < current.
LoopPcShort(bb, cur) == IF bb < cur THEN "fetch" ELSE "sleep"

\* The loop condition b <= current, for the b the loop is about to run with.
LoopPc(bb, cur) == IF bb <= cur THEN "fetch" ELSE "sleep"

\* HeaderByNumber succeeds; the for loop starts at lastBlock + 1.
WatcherHead ==
  /\ up /\ wpc = "head"
  /\ current' = head
  /\ lastBlock' = StartFrom(lastBlock, head)
  /\ b' = lastBlock' + 1
  /\ wpc' = LoopPc(b', current')
  /\ startCursor' = IF lastBlock = 0 THEN lastBlock' ELSE startCursor
  /\ fetchErr' = NoErr
  /\ UNCHANGED <<up, head, dbvars, txi, hs, crashes, requests, faults,
                 credited, attempted, crashCursor, ver, deposited, jobsPaid>>

\* HeaderByNumber fails: header == nil, sleep, continue.
WatcherHeadFail ==
  /\ up /\ wpc = "head"
  /\ wpc' = "backoff"
  /\ fetchErr' = [kind |-> "head", height |-> lastBlock + 1]
  /\ UNCHANGED <<up, head, dbvars, lastBlock, current, b, txi, hs, crashes,
                 requests, faults, credited, attempted, crashCursor, startCursor, ver, deposited, jobsPaid>>

\* time.Sleep(10 * time.Second) is over, after a failed head fetch or at the
\* end of a cycle.
WatcherWake ==
  /\ up /\ wpc \in {"backoff", "sleep"}
  /\ wpc' = "head"
  /\ UNCHANGED <<up, head, dbvars, lastBlock, current, b, txi, hs, crashes,
                 requests, faults, hist>>

\* BlockByNumber(b) succeeds.  A block without transactions is scanned at
\* once: lastBlock = b; b++.
WatcherFetch ==
  /\ up /\ wpc = "fetch"
  /\ fetchErr' = NoErr
  /\ IF Len(BlockAt(b)) = 0
       THEN /\ lastBlock' = b
            /\ b' = b + 1
            /\ wpc' = LoopPc(b', current)
            /\ txi' = txi
       ELSE /\ wpc' = "scan"
            /\ txi' = 1
            /\ UNCHANGED <<lastBlock, b, deposited, jobsPaid>>
  /\ UNCHANGED <<up, head, dbvars, current, hs, crashes, requests,
                 faults, credited, attempted, crashCursor, startCursor, ver, deposited, jobsPaid>>

\* BlockByNumber(b) fails: block is nil and block.Transactions() dereferences
\* it; the panic of the goroutine ends the process.
WatcherBlockFail ==
  /\ up /\ wpc = "fetch"
  /\ crashes < MaxCrashes
  /\ Die([kind |-> "block", height |-> b])

\* One transaction of the block is looked at; the credit of a qualifying one
\* is one autocommitted statement whose error is dropped.
WatcherScan ==
  /\ up /\ wpc = "scan"
  /\ txi <= Len(BlockAt(b))
  /\ LET tx == BlockAt(b)[txi]
         sender == Hex(tx.from)
     IN IF Qualifies(tx)
          THEN /\ ~Locked(sender)
               /\ \E fault \in {FALSE, TRUE} :
                    /\ fault => faults < MaxFaults
                    /\ faults' = IF fault THEN faults + 1 ELSE faults
                    /\ attempted' = [attempted EXCEPT ![tx.hash] = @ + 1]
                    /\ IF fault \/ UpsertFails(agents, sender, tx.value)
                         THEN UNCHANGED <<agents, credited, ver>>
                         ELSE /\ agents' = Upsert(agents, sender, tx.value)
                              /\ credited' = [credited EXCEPT ![tx.hash] = @ + 1]
                              /\ ver' = Bump(ver, {sender})
               /\ wpc' = "logdep"
               /\ txi' = txi
          ELSE /\ txi' = txi + 1
               /\ wpc' = wpc
               /\ UNCHANGED <<agents, credited, attempted, ver, faults>>
  /\ UNCHANGED <<up, head, a2a_jobs, jobSeq, activity_log, lastBlock, current, b,
                 hs, crashes, requests, crashCursor, startCursor, fetchErr, deposited, jobsPaid>>

\* db.Exec("INSERT INTO activity_log ...DEPOSIT...") after the credit.
WatcherLogDeposit ==
  /\ up /\ wpc = "logdep"
  /\ \E fault \in {FALSE, TRUE} :
       /\ fault => faults < MaxFaults
       /\ faults' = IF fault THEN faults + 1 ELSE faults
       /\ activity_log' = IF fault THEN activity_log ELSE activity_log + 1
  /\ wpc' = "scan"
  /\ txi' = txi + 1
  /\ UNCHANGED <<up, head, agents, a2a_jobs, jobSeq, lastBlock, current, b, hs,
                 crashes, requests, hist>>

\* The transactions of the block are all scanned: lastBlock = b; b++.
WatcherAdvance ==
  /\ up /\ wpc = "scan"
  /\ txi > Len(BlockAt(b))
  /\ lastBlock' = b
  /\ b' = b + 1
  /\ wpc' = LoopPc(b', current)
  /\ UNCHANGED <<up, head, dbvars, current, txi, hs, crashes, requests, faults, hist>>

Watcher ==
  \/ WatcherHead \/ WatcherHeadFail \/ WatcherWake \/ WatcherFetch
  \/ WatcherBlockFail \/ WatcherScan \/ WatcherLogDeposit \/ WatcherAdvance

\* ------------------------------------------------------------- requests
Req(rw, id, pw) == [RenterWallet |-> rw, ProviderID |-> id, ProviderWallet |-> pw]

\* The bodies of POST /api/rent that clients send: the page's own request for
\* a listed node, a request naming the renter as payee, one for a node_id that
\* is not in providers, and one that spells the renter in lower case.
RentRequests ==
  { Req("0xA1", "NODE_ALPHA", "0xProvider1..."),
    Req("0xA1", "NODE_ALPHA", "0xA1"),
    Req("0xA1", "NODE_X",     "0xProvider1..."),
    Req("0xa1", "NODE_ALPHA", "0xProvider1...") }

\* The bodies a client that does not go by the page's list sends as well: for
\* the node that is not listed because it is off, for a node the renter
\* cannot pay, and by a wallet that has no account.
SpendRequests ==
  { Req("0xA1", "NODE_ALPHA",   "0xProvider1..."),
    Req("0xA1", "NODE_X",       "0xProvider1..."),
    Req("0xA1", "NODE_DELTA",   "0xProvider4..."),
    Req("0xA1", "NODE_CHARLIE", "0xProvider3..."),
    Req("0xB2", "NODE_BRAVO",   "0xProvider2...") }

\* The wallets of POST /api/createJob and POST /api/deposit.
JobWallets == {"0xA1", "0xa1"}
DepositWallets == {"0xA1", "0xa1"}

Busy(h) == hs[h].pc \notin {"idle", "done"}

\* A request is served by the first handler that is free.
Free(h) == ~Busy(h) /\ \A o \in Handlers : o < h => Busy(o)

Set(h, rec) == [hs EXCEPT ![h] = rec]

\* The handler returns: its transaction, if any, is over.
Done(rec, resp, committed) ==
  [rec EXCEPT !.pc = "done", !.resp = resp, !.committed = committed,
              !.txOpen = FALSE, !.txFailed = FALSE, !.wr = EmptyTbl,
              !.jobs = << >>, !.logs = 0]

\* A statement of the open transaction of h fails (or is refused because the
\* transaction is already aborted): the transaction is aborted.  It keeps its
\* row locks until it ends; what it wrote is dead.
Abort(rec) ==
  [rec EXCEPT !.txFailed = TRUE, !.wr = [w \in DOMAIN rec.wr |-> 0],
              !.jobs = << >>, !.logs = 0]

\* What the transaction of rec reads: its own writes over the committed rows.
View(rec) == Overlay(agents, rec.wr)

\* The statement failure injected into a step, within the budget.
Inject(fault) ==
  /\ fault => faults < MaxFaults
  /\ faults' = IF fault THEN faults + 1 ELSE faults

\* A COMMIT that leaves the balance writes in place although it failed.
CommitRowsKeepsWrites(tbl, wr, failed) == Overlay(tbl, wr)

\* The rows a finished transaction leaves: all of its writes on COMMIT, none
\* of them when it was aborted (COMMIT of an aborted transaction rolls back).
CommitRows(tbl, wr, failed) == IF failed THEN tbl ELSE Overlay(tbl, wr)
CommitJobs(tbl, jobs, failed) == IF failed THEN tbl ELSE tbl \o jobs
CommitLogs(n, logs, failed) == IF failed THEN n ELSE n + logs
CommitVer(v, wr, failed) == IF failed THEN v ELSE Bump(v, DOMAIN wr)

\* --------------------------------------------------------------- handleRent
\* json.NewDecoder(r.Body).Decode(&req)
Decode(h, bodies) ==
  /\ up /\ Free(h)
  /\ requests < MaxRequests
  /\ requests' = requests + 1
  /\ \E r \in bodies :
       hs' = Set(h, [Idle EXCEPT !.pc = "read", !.kind = "rent",
                                 !.RenterWallet = r.RenterWallet,
                                 !.ProviderID = r.ProviderID,
                                 !.ProviderWallet = r.ProviderWallet])
  /\ UNCHANGED <<up, head, dbvars, wvars, crashes, faults, hist>>

RentStart(h) == Free(h) /\ Decode(h, RentRequests)

SpendStart(h) == Free(h) /\ Decode(h, SpendRequests)

\* 1. Check Renter Balance: SELECT, then if renterBal == 0 -> 400.
RentReadBalance(h) ==
  /\ up /\ hs[h].kind = "rent" /\ hs[h].pc = "read"
  /\ LET bal == SelectBalance(agents, hs[h].RenterWallet)
         rec == [hs[h] EXCEPT !.renterBal = bal, !.readVer = ver[hs[h].RenterWallet]]
     IN hs' = Set(h, IF bal = 0
                       THEN Done(rec, "INSUFFICIENT CREDITS", FALSE)
                       ELSE [rec EXCEPT !.pc = "price"])
  /\ UNCHANGED <<up, head, dbvars, wvars, crashes, requests, faults, hist>>

\* 3. Calculate Fee: feeAmount.Div(feeAmount, big.NewInt(100))
Fee(priceWei) == priceWei \div FeeDivisor

\* A payout of the whole price: the fee stays with the provider.
ProviderGross(priceWei) == priceWei

\* providerNet := priceWei - feeAmount.Int64()
ProviderNet(priceWei) == priceWei - Fee(priceWei)

\* A comparison that lets every request through.
AffordableAlways(renterBal, priceWei) == TRUE

\* if renterBal < priceWei -> 400
Affordable(renterBal, priceWei) == ~(renterBal < priceWei)

\* 2. Get Provider Price, the comparison, and the fee.
RentReadPrice(h) ==
  /\ up /\ hs[h].kind = "rent" /\ hs[h].pc = "price"
  /\ LET price == SelectPrice(hs[h].ProviderID)
         rec == [hs[h] EXCEPT !.priceWei = price]
     IN hs' = Set(h, IF Affordable(hs[h].renterBal, price)
                       THEN [rec EXCEPT !.pc = "begin", !.feeAmount = Fee(price)]
                       ELSE Done(rec, "INSUFFICIENT FUNDS FOR GPU", FALSE))
  /\ UNCHANGED <<up, head, dbvars, wvars, crashes, requests, faults, hist>>

\* tx, _ := db.Begin(): on failure tx is nil and the first tx.Exec panics;
\* net/http recovers the panic and drops the connection.
Begin(h, next) ==
  /\ up /\ hs[h].pc = "begin"
  /\ \E fault \in {FALSE, TRUE} :
       /\ Inject(fault)
       /\ hs' = Set(h, IF fault
                         THEN Done(hs[h], "panic", FALSE)
                         ELSE [hs[h] EXCEPT !.pc = next, !.txOpen = TRUE])
  /\ UNCHANGED <<up, head, dbvars, wvars, crashes, requests, hist>>

RentBegin(h) == hs[h].kind = "rent" /\ Begin(h, "debit")

\* tx.Exec("UPDATE agents SET balance = balance - $1 WHERE wallet = $2")
ExecDebit(h, amt, next) ==
  /\ up /\ hs[h].pc = "debit"
  /\ LET w == hs[h].RenterWallet
         rec == [hs[h] EXCEPT !.pc = next]
     IN /\ ~LockedByOther(h, w)
        /\ \E fault \in {FALSE, TRUE} :
             /\ Inject(fault)
             /\ hs' = Set(h,
                  IF rec.txFailed \/ fault \/ UpdateFails(View(rec), w, amt)
                    THEN Abort(rec)
                  ELSE IF w \in DOMAIN View(rec)
                    THEN [rec EXCEPT !.wr = Put(rec.wr, w, View(rec)[w] - amt)]
                  ELSE rec)
  /\ UNCHANGED <<up, head, dbvars, wvars, crashes, requests, hist>>

RentDebit(h) == hs[h].kind = "rent" /\ ExecDebit(h, hs[h].priceWei, "credit")

\* tx.Exec(`INSERT INTO agents ... ON CONFLICT (wallet) DO UPDATE ...`,
\*         req.ProviderWallet, providerNet)
RentCredit(h) ==
  /\ up /\ hs[h].kind = "rent" /\ hs[h].pc = "credit"
  /\ LET w == hs[h].ProviderWallet
         net == ProviderNet(hs[h].priceWei)
         rec == [hs[h] EXCEPT !.pc = "job"]
     IN /\ ~LockedByOther(h, w)
        /\ \E fault \in {FALSE, TRUE} :
             /\ Inject(fault)
             /\ hs' = Set(h,
                  IF rec.txFailed \/ fault \/ UpsertFails(View(rec), w, net)
                    THEN Abort(rec)
                    ELSE [rec EXCEPT !.wr = Put(rec.wr, w, Upsert(View(rec), w, net)[w])])
  /\ UNCHANGED <<up, head, dbvars, wvars, crashes, requests, hist>>

\* The row of a2a_jobs; timestamp DEFAULT NOW() is left out.
JobRow(id, rec) ==
  [id |-> id, from_wallet |-> rec.RenterWallet, to_wallet |-> rec.ProviderWallet,
   fee_wei |-> rec.feeAmount, amount_wei |-> rec.priceWei]

\* tx.Exec("INSERT INTO a2a_jobs (from_wallet, to_wallet, fee_wei, amount_wei)"):
\* the id is drawn from the sequence, which a rollback does not give back.
RentJob(h) ==
  /\ up /\ hs[h].kind = "rent" /\ hs[h].pc = "job"
  /\ LET rec == [hs[h] EXCEPT !.pc = "log"]
     IN \E fault \in {FALSE, TRUE} :
          /\ Inject(fault)
          /\ IF rec.txFailed \/ fault
               THEN /\ hs' = Set(h, Abort(rec))
                    /\ jobSeq' = jobSeq
               ELSE /\ hs' = Set(h, [rec EXCEPT !.jobs = Append(rec.jobs, JobRow(jobSeq + 1, rec))])
                    /\ jobSeq' = jobSeq + 1
  /\ UNCHANGED <<up, head, agents, a2a_jobs, activity_log, wvars, crashes, requests, hist>>

\* tx.Exec("INSERT INTO activity_log (description) VALUES ($1)", "A2A TRANSFER...")
RentLog(h) ==
  /\ up /\ hs[h].kind = "rent" /\ hs[h].pc = "log"
  /\ LET rec == [hs[h] EXCEPT !.pc = "commit"]
     IN \E fault \in {FALSE, TRUE} :
          /\ Inject(fault)
          /\ hs' = Set(h, IF rec.txFailed \/ fault
                            THEN Abort(rec)
                            ELSE [rec EXCEPT !.logs = rec.logs + 1])
  /\ UNCHANGED <<up, head, dbvars, wvars, crashes, requests, hist>>

\* tx.Commit(), whose error is dropped, and the response
\* {"status": "rented", ...} that follows in every case.
RentCommit(h) ==
  /\ up /\ hs[h].kind = "rent" /\ hs[h].pc = "commit"
  /\ \E fault \in {FALSE, TRUE} :
       /\ Inject(fault)
       /\ LET failed == hs[h].txFailed \/ fault
          IN /\ agents' = CommitRows(agents, hs[h].wr, failed)
             /\ a2a_jobs' = CommitJobs(a2a_jobs, hs[h].jobs, failed)
             /\ activity_log' = CommitLogs(activity_log, hs[h].logs, failed)
             /\ ver' = CommitVer(ver, hs[h].wr, failed)
             /\ hs' = Set(h, Done(hs[h], "rented", ~failed))
  /\ UNCHANGED <<up, head, jobSeq, wvars, crashes, requests, credited, attempted,
                 crashCursor, startCursor, fetchErr, deposited, jobsPaid>>

Rent(h) ==
  \/ RentStart(h) \/ RentReadBalance(h) \/ RentReadPrice(h) \/ RentBegin(h)
  \/ RentDebit(h) \/ RentCredit(h) \/ RentJob(h) \/ RentLog(h) \/ RentCommit(h)

\* handleRent for the requests of SpendRequests.
Spend(h) ==
  \/ SpendStart(h) \/ RentReadBalance(h) \/ RentReadPrice(h) \/ RentBegin(h)
  \/ RentDebit(h) \/ RentCredit(h) \/ RentJob(h) \/ RentLog(h) \/ RentCommit(h)

\* ---------------------------------------------------- the read handlers
\* The wallets asked for with GET /api/balance?addr=, and the limits a client
\* of GET /api/admin/a2a-tx asks for (the handler reads no parameter).
BalanceWallets == {"0xA1", "0xB2", "0xProvider4..."}
Limits == {0, 1, RecentLimit}

\* A read handler is one step: its SELECTs, then the JSON body.
Reply(kind, w, limit, body) ==
  [Idle EXCEPT !.pc = "done", !.kind = kind, !.RenterWallet = w, !.limit = limit,
               !.resp = "200", !.body = body]

Accept(h) ==
  /\ up /\ Free(h)
  /\ requests < MaxRequests
  /\ requests' = requests + 1
  /\ UNCHANGED <<up, head, dbvars, wvars, crashes, faults, hist>>

\* checkRealBalance: {"balance": dbBal}
CheckRealBalance(h) ==
  /\ Accept(h)
  /\ \E w \in BalanceWallets :
       hs' = Set(h, Reply("balance", w, 0, << [balance |-> SelectBalance(agents, w)] >>))

\* A sum over the wrong column of a2a_jobs.
SumAmounts(rows) == SumF(1..Len(rows), [i \in 1..Len(rows) |-> rows[i].amount_wei])

\* SELECT COALESCE(SUM(fee_wei), 0) FROM a2a_jobs
SumFees(rows) == SumF(1..Len(rows), [i \in 1..Len(rows) |-> rows[i].fee_wei])

\* handleAdminOverview, behind adminAuth: {"agents", "nodes", "revenue"}
HandleAdminOverview(h) ==
  /\ Accept(h)
  /\ hs' = Set(h, Reply("overview", "", 0,
                        << [agents |-> Cardinality(DOMAIN agents),
                            nodes |-> Cardinality(OnlineProviders),
                            revenue |-> SumFees(a2a_jobs)] >>))

\* ORDER BY id DESC: the k-th row is the one with k - 1 rows of a larger id.
ByIdDesc(rows) ==
  [k \in 1..Len(rows) |->
     CHOOSE r \in Range(rows) : Cardinality({x \in Range(rows) : x.id > r.id}) = k - 1]

\* LIMIT n
Limit(rows, n) == SubSeq(rows, 1, IF n < Len(rows) THEN n ELSE Len(rows))

\* The map that rows.Scan and append make of a row (the time is left out).
Listed(r) ==
  [from |-> r.from_wallet, to |-> r.to_wallet, fee |-> r.fee_wei, total |-> r.amount_wei]

\* handleA2ATransactions, behind adminAuth: the rows of
\* SELECT ... FROM a2a_jobs ORDER BY id DESC LIMIT 20, whatever limit is asked.
HandleA2ATransactions(h) ==
  /\ Accept(h)
  /\ \E limit \in Limits :
       LET top == Limit(ByIdDesc(a2a_jobs), RecentLimit)
       IN hs' = Set(h, Reply("a2a-tx", "", limit, [k \in 1..Len(top) |-> Listed(top[k])]))

Reads(h) == CheckRealBalance(h) \/ HandleAdminOverview(h) \/ HandleA2ATransactions(h)

\* ------------------------------------------- handleDeposit (part_000)
\* The mock deposit: one autocommitted upsert of 10^18 wei; on its error 500
\* and no log line, else logActivity, whose own error is only printed.
Deposit ==
  /\ up
  /\ requests < MaxRequests
  /\ requests' = requests + 1
  /\ \E w \in DepositWallets :
       /\ ~Locked(w)
       /\ \E fault \in {FALSE, TRUE} :
            /\ Inject(fault)
            /\ IF fault \/ UpsertFails(agents, w, DepositAmount)
                 THEN UNCHANGED <<agents, activity_log, ver, deposited>>
                 ELSE /\ agents' = Upsert(agents, w, DepositAmount)
                      /\ activity_log' = activity_log + 1
                      /\ ver' = Bump(ver, {w})
                      /\ deposited' = [deposited EXCEPT ![w] = @ + 1]
  /\ UNCHANGED <<up, head, a2a_jobs, jobSeq, wvars, hs, crashes, credited,
                 attempted, crashCursor, startCursor, fetchErr, jobsPaid>>

\* ----------------------------------------- handleCreateJob (part_000)
JobStart(h) ==
  /\ up /\ Free(h)
  /\ requests < MaxRequests
  /\ requests' = requests + 1
  /\ \E w \in JobWallets :
       hs' = Set(h, [Idle EXCEPT !.pc = "jread", !.kind = "job", !.RenterWallet = w])
  /\ UNCHANGED <<up, head, dbvars, wvars, crashes, faults, hist>>

\* An int64 holding x: Go's wrap-around on overflow.
Int64(x) == ((x + MaxInt64 + 1) % (2 * (MaxInt64 + 1))) - (MaxInt64 + 1)

\* The fee with the multiplication done in an int64 instead of a big.Int.
JobFeeInt64(cost) == Int64(cost * JobFeeMul) \div JobFeeDiv

\* feeAmount = jobCost * 100 / 10000, in big.Int
JobFee(cost) == (cost * JobFeeMul) \div JobFeeDiv

\* Check Balance: err != nil (no row) || currentBal < jobCost -> 400.
JobReadBalance(h) ==
  /\ up /\ hs[h].kind = "job" /\ hs[h].pc = "jread"
  /\ LET w == hs[h].RenterWallet
         bal == SelectBalance(agents, w)
         rec == [hs[h] EXCEPT !.renterBal = bal, !.readVer = ver[w], !.priceWei = JobCost]
     IN hs' = Set(h, IF w \notin DOMAIN agents \/ bal < JobCost
                       THEN Done(rec, "Insufficient Funds", FALSE)
                       ELSE [rec EXCEPT !.pc = "begin", !.feeAmount = JobFee(JobCost)])
  /\ UNCHANGED <<up, head, dbvars, wvars, crashes, requests, faults, hist>>

JobBegin(h) == hs[h].kind = "job" /\ Begin(h, "debit")

JobDebit(h) == hs[h].kind = "job" /\ ExecDebit(h, JobCost, "logfee")

\* logActivity("JOB CREATED: Fee ..."): db.Exec, outside the transaction.
JobLogFee(h) ==
  /\ up /\ hs[h].kind = "job" /\ hs[h].pc = "logfee"
  /\ \E fault \in {FALSE, TRUE} :
       /\ Inject(fault)
       /\ activity_log' = IF fault THEN activity_log ELSE activity_log + 1
  /\ hs' = Set(h, [hs[h] EXCEPT !.pc = "commit"])
  /\ UNCHANGED <<up, head, agents, a2a_jobs, jobSeq, wvars, crashes, requests, hist>>

\* tx.Commit(), whose error is dropped.
JobCommit(h) ==
  /\ up /\ hs[h].kind = "job" /\ hs[h].pc = "commit"
  /\ \E fault \in {FALSE, TRUE} :
       /\ Inject(fault)
       /\ LET failed == hs[h].txFailed \/ fault
              w == hs[h].RenterWallet
          IN /\ agents' = CommitRows(agents, hs[h].wr, failed)
             /\ ver' = CommitVer(ver, hs[h].wr, failed)
             /\ jobsPaid' = IF failed \/ w \notin DOMAIN hs[h].wr
                              THEN jobsPaid
                              ELSE [jobsPaid EXCEPT ![w] = @ + 1]
             /\ hs' = Set(h, [Done(hs[h], "none", ~failed) EXCEPT !.pc = "logstart"])
  /\ UNCHANGED <<up, head, a2a_jobs, jobSeq, activity_log, wvars, crashes, requests,
                 credited, attempted, crashCursor, startCursor, fetchErr, deposited>>

\* logActivity("JOB EXECUTION STARTED ...") and the response
\* {"status": "success", ...}.
JobFinish(h) ==
  /\ up /\ hs[h].kind = "job" /\ hs[h].pc = "logstart"
  /\ \E fault \in {FALSE, TRUE} :
       /\ Inject(fault)
       /\ activity_log' = IF fault THEN activity_log ELSE activity_log + 1
  /\ hs' = Set(h, Done(hs[h], "success", hs[h].committed))
  /\ UNCHANGED <<up, head, agents, a2a_jobs, jobSeq, wvars, crashes, requests, hist>>

Job(h) ==
  \/ JobStart(h) \/ JobReadBalance(h) \/ JobBegin(h) \/ JobDebit(h)
  \/ JobLogFee(h) \/ JobCommit(h) \/ JobFinish(h)

Ledger == \E h \in Handlers : Rent(h)

Engine == Deposit \/ \E h \in Handlers : Job(h)

Admin == \E h \in Handlers : Reads(h)

Next == ChainAdvance \/ Crash \/ Restart \/ Watcher \/ Ledger \/ Engine \/ Admin

Spec == Init /\ [][Next]_vars

\* The watcher with the chain and the process, and no client request.
NextWatcher == ChainAdvance \/ Crash \/ Restart \/ Watcher

SpecWatcher == Init /\ [][NextWatcher]_vars

\* The state SpecWatcher reaches when the watcher, in its first cycle, has
\* scanned the blocks 2 .. 10 and is about to fetch block 11: t1 is credited,
\* the credit of t5 was refused (out of range), no request was served yet.
InitLedger ==
  /\ up = TRUE
  /\ head = Depth + 1
  /\ agents = [w \in {"0xA1"} |-> 200]
  /\ a2a_jobs = << >>
  /\ jobSeq = 0
  /\ activity_log = 2
  /\ wpc = "fetch"
  /\ lastBlock = 10
  /\ current = 11
  /\ b = 11
  /\ txi = 5
  /\ hs = [h \in Handlers |-> Idle]
  /\ crashes = 0
  /\ requests = 0
  /\ faults = 0
  /\ credited = [t \in Hashes |-> IF t = "t1" THEN 1 ELSE 0]
  /\ attempted = [t \in Hashes |-> IF t \in {"t1", "t5"} THEN 1 ELSE 0]
  /\ crashCursor = 0
  /\ startCursor = 1
  /\ fetchErr = NoErr
  /\ ver = [w \in WalletStrs |-> IF w = "0xA1" THEN 1 ELSE 0]
  /\ deposited = [w \in WalletStrs |-> 0]
  /\ jobsPaid = [w \in WalletStrs |-> 0]

\* The handlers of main.go and the watcher, from InitLedger on, over a chain
\* that stands still and answers every fetch; the process may die, and is not
\* started again (restarts are SpecWatcher's).
NextLedger ==
  \/ Crash
  \/ WatcherHead \/ WatcherWake \/ WatcherFetch
  \/ WatcherScan \/ WatcherLogDeposit \/ WatcherAdvance
  \/ Ledger

SpecLedger == InitLedger /\ [][NextLedger]_vars

\* handleRent alone, from InitLedger on, while the watcher waits for the node
\* to answer its fetch of block 11; the process may die.
NextSpend == Crash \/ \E h \in Handlers : Spend(h)

SpecSpend == InitLedger /\ [][NextSpend]_vars

\* The state SpecSpend reaches from InitLedger when 0xA1 has rented NODE_DELTA
\* once, paying 0xProvider4...; no request is in flight.
InitAdmin ==
  /\ up = TRUE
  /\ head = Depth + 1
  /\ agents = [w \in {"0xA1", "0xProvider4..."} |-> IF w = "0xA1" THEN 100 ELSE 99]
  /\ a2a_jobs = << [id |-> 1, from_wallet |-> "0xA1", to_wallet |-> "0xProvider4...",
                    fee_wei |-> 1, amount_wei |-> 100] >>
  /\ jobSeq = 1
  /\ activity_log = 3
  /\ wpc = "fetch"
  /\ lastBlock = 10
  /\ current = 11
  /\ b = 11
  /\ txi = 5
  /\ hs = [h \in Handlers |-> Idle]
  /\ crashes = 0
  /\ requests = 0
  /\ faults = 0
  /\ credited = [t \in Hashes |-> IF t = "t1" THEN 1 ELSE 0]
  /\ attempted = [t \in Hashes |-> IF t \in {"t1", "t5"} THEN 1 ELSE 0]
  /\ crashCursor = 0
  /\ startCursor = 1
  /\ fetchErr = NoErr
  /\ ver = [w \in WalletStrs |->
              IF w = "0xA1" THEN 2 ELSE IF w = "0xProvider4..." THEN 1 ELSE 0]
  /\ deposited = [w \in WalletStrs |-> 0]
  /\ jobsPaid = [w \in WalletStrs |-> 0]

\* handleRent and the read handlers, from InitLedger (no row in a2a_jobs) or
\* from InitAdmin (one row) on, while the watcher waits for the node to
\* answer; the process may die.
NextAdmin == Crash \/ \E h \in Handlers : Spend(h) \/ Reads(h)

SpecAdmin == (InitLedger \/ InitAdmin) /\ [][NextAdmin]_vars

\* The whole of main.go from InitLedger on: the watcher over a node that may
\* fail any fetch, handleRent and checkRealBalance; nobody stops the process
\* from outside.
NextServe == Watcher \/ \E h \in Handlers : Spend(h) \/ CheckRealBalance(h)

SpecServe == InitLedger /\ [][NextServe]_vars

\* The fee computations of handleRent and handleCreateJob, applied to prices
\* from 0 up and from the largest int64 down.  In SpecFee an amount is a plain
\* integer (wei), and MaxInt64 stands for the largest int64.
PriceSamples == (0..MaxSample) \cup ((MaxInt64 - MaxSample)..MaxInt64)

InitFee ==
  /\ up = TRUE
  /\ head = Depth + 1
  /\ agents = EmptyTbl
  /\ a2a_jobs = << >>
  /\ jobSeq = 0
  /\ activity_log = 0
  /\ wpc = "head"
  /\ lastBlock = 0
  /\ current = 0
  /\ b = 0
  /\ txi = 0
  /\ \E price \in PriceSamples :
       hs = [h \in Handlers |->
               IF h = 1 THEN [Idle EXCEPT !.pc = "fee", !.kind = "fee", !.priceWei = price]
               ELSE Idle]
  /\ crashes = 0
  /\ requests = 0
  /\ faults = 0
  /\ credited = [t \in Hashes |-> 0]
  /\ attempted = [t \in Hashes |-> 0]
  /\ crashCursor = 0
  /\ startCursor = 0
  /\ fetchErr = NoErr
  /\ ver = [w \in WalletStrs |-> 0]
  /\ deposited = [w \in WalletStrs |-> 0]
  /\ jobsPaid = [w \in WalletStrs |-> 0]

\* feeAmount := big.NewInt(priceWei); feeAmount.Div(feeAmount, big.NewInt(100))
FeeRent(h) ==
  /\ hs[h].pc = "fee"
  /\ hs' = Set(h, [hs[h] EXCEPT !.pc = "feeRent", !.feeAmount = Fee(hs[h].priceWei)])
  /\ UNCHANGED <<up, head, dbvars, wvars, crashes, requests, faults, hist>>

\* feeAmount.Set(jobCost); feeAmount.Mul(feeAmount, 100); feeAmount.Div(feeAmount, 10000)
FeeJob(h) ==
  /\ hs[h].pc = "fee"
  /\ hs' = Set(h, [hs[h] EXCEPT !.pc = "feeJob", !.feeAmount = JobFee(hs[h].priceWei)])
  /\ UNCHANGED <<up, head, dbvars, wvars, crashes, requests, faults, hist>>

NextFee == \E h \in Handlers : FeeRent(h) \/ FeeJob(h)

SpecFee == InitFee /\ [][NextFee]_vars

\* The handlers of part_000, the program without watcher, over its own database.
NextEngine == Crash \/ Engine

SpecEngine == Init /\ [][NextEngine]_vars

\* The watcher over a chain whose node may fail any fetch, with no client
\* request and nobody to start the process again (the image runs /app/main
\* once).  The goroutine is always scheduled again, its sleeps end, and a
\* fetch that is tried again and again succeeds in the end.
NextFetch == ChainAdvance \/ Watcher

FairFetch ==
  /\ WF_vars(WatcherWake \/ WatcherScan \/ WatcherLogDeposit \/ WatcherAdvance)
  /\ SF_vars(WatcherHead)
  /\ SF_vars(WatcherFetch)

SpecFetch == Init /\ [][NextFetch]_vars /\ FairFetch

\* ---------------------------------------------------------------- history
\* The state SpecWatcher reaches when the watcher, in its first run and with
\* no statement failing, has processed the blocks 2 .. 12 and sleeps: alice
\* holds 300 and bob 100, no request was served yet.
InitLog ==
  /\ up = TRUE
  /\ head = Depth + 2
  /\ agents = [w \in {"0xA1", "0xB2"} |-> IF w = "0xA1" THEN 300 ELSE 100]
  /\ a2a_jobs = << >>
  /\ jobSeq = 0
  /\ activity_log = 4
  /\ wpc = "sleep"
  /\ lastBlock = Depth + 2
  /\ current = Depth + 2
  /\ b = Depth + 3
  /\ txi = 2
  /\ hs = [h \in Handlers |-> Idle]
  /\ crashes = 0
  /\ requests = 0
  /\ faults = 0
  /\ credited = [t \in Hashes |-> IF t \in {"t1", "t6", "t7"} THEN 1 ELSE 0]
  /\ attempted = [t \in Hashes |-> IF t \in {"t1", "t5", "t6", "t7"} THEN 1 ELSE 0]
  /\ crashCursor = 0
  /\ startCursor = 1
  /\ fetchErr = NoErr
  /\ ver = [w \in WalletStrs |-> IF w = "0xA1" THEN 2 ELSE IF w = "0xB2" THEN 1 ELSE 0]
  /\ deposited = [w \in WalletStrs |-> 0]
  /\ jobsPaid = [w \in WalletStrs |-> 0]

\* handleRent serving two funded renters, from InitLog on, while the watcher
\* sleeps.
NextLog == Crash \/ \E h \in Handlers : Spend(h)

SpecLog == InitLog /\ [][NextLog]_vars

\* The transactions of the chain up to MaxHead, and the one with a given hash.
ChainTxs == UNION {Range(BlockAt(h)) : h \in 1..(MaxHead + 1)}
TxOf(t) == CHOOSE tx \in ChainTxs : tx.hash = t

\* The qualifying transactions of block h.
Deposits(h) == {tx \in Range(BlockAt(h)) : Qualifies(tx)}

\* What the credits counted in cnt (per hash) add up to for wallet w.
CreditSum(cnt, w) ==
  SumF({t \in Hashes : Hex(TxOf(t).from) = w}, [t \in Hashes |-> cnt[t] * TxOf(t).value])

\* What the rows of a2a_jobs took from, and gave to, wallet w.
Debited(w) ==
  SumF({i \in 1..Len(a2a_jobs) : a2a_jobs[i].from_wallet = w},
       [i \in 1..Len(a2a_jobs) |-> a2a_jobs[i].amount_wei])
Received(w) ==
  SumF({i \in 1..Len(a2a_jobs) : a2a_jobs[i].to_wallet = w},
       [i \in 1..Len(a2a_jobs) |-> a2a_jobs[i].amount_wei - a2a_jobs[i].fee_wei])

Once(cnt) == [t \in Hashes |-> IF cnt[t] > 0 THEN 1 ELSE 0]

\* h is a request of handleRent that has returned.
Returned(h) == hs[h].kind = "rent" /\ hs[h].pc = "done"
Rejected(h) == hs[h].resp \in {"INSUFFICIENT CREDITS", "INSUFFICIENT FUNDS FOR GPU"}

\* Two requests of handleRent for the same renter that both read the same
\* version of its row, with a balance of exactly the price asked.
ConcurrentExact(h1, h2) ==
  /\ h1 # h2
  /\ Returned(h1) /\ Returned(h2)
  /\ hs[h1].RenterWallet = hs[h2].RenterWallet
  /\ hs[h1].readVer = hs[h2].readVer
  /\ hs[h1].priceWei > 0
  /\ hs[h1].renterBal = hs[h1].priceWei
  /\ hs[h2].renterBal = hs[h2].priceWei

\* ----------------------------------------------------------------- claims
\* C1: of two concurrent Spends of one renter whose balance is exactly one
\* unit_price, exactly one succeeds and the other is rejected for insufficient
\* balance (no statement failure being injected).
C1_ExactlyOneSpendSucceeds ==
  \A h1, h2 \in Handlers :
    (faults = 0 /\ ConcurrentExact(h1, h2)) =>
      \/ hs[h1].committed /\ Rejected(h2)
      \/ hs[h2].committed /\ Rejected(h1)

\* C2: in every reachable state, under any interleaving of Credits and
\* Spends, every committed account balance is >= 0.
C2_BalanceNeverNegative ==
  \A w \in DOMAIN agents : agents[w] >= 0

\* C3: a Credit re-issued with a token (chain transaction hash) that was
\* already applied changes no balance: however often a token is issued, each
\* balance is the sum of the amounts of the distinct tokens applied to it.
C3_DuplicateCreditIsNoOp ==
  \A w \in WalletStrs : SelectBalance(agents, w) = CreditSum(Once(credited), w)

\* C4: after Credits with pairwise distinct tokens (no token issued twice, no
\* statement failure injected), each balance is the sum of the amounts
\* credited to that wallet.
C4_BalanceIsSumOfCredits ==
  (faults = 0 /\ \A t \in Hashes : attempted[t] <= 1) =>
    \A w \in WalletStrs : SelectBalance(agents, w) = CreditSum(attempted, w)

\* C5: Spend is all-or-nothing: in every state, whatever failed and wherever
\* the process died, the committed balances are exactly those that the applied
\* deposits and the committed rows of a2a_jobs account for: there is no debit
\* or provider credit without its row, and no row without its debit and credit.
C5_SpendAllOrNothing ==
  \A w \in WalletStrs :
    SelectBalance(agents, w) = CreditSum(credited, w) - Debited(w) + Received(w)

\* C5 witness: a Spend wrote its debit, credit and row, then failed, and
\* nothing of it is in the tables.
C5_Witness ==
  \E h \in Handlers :
    /\ Returned(h) /\ hs[h].resp = "rented" /\ ~hs[h].committed
    /\ hs[h].priceWei > 0
    /\ jobSeq = 1 /\ faults = 1 /\ a2a_jobs = << >>

\* C6: no deposit transaction is credited a second time, also when the
\* watcher has crashed and restarted.
C6_NoDepositCreditedTwice ==
  \A t \in Hashes : credited[t] <= 1

\* C7: after a crash and restart, no qualifying deposit in a block above the
\* cursor reached before the crash is skipped: every qualifying transaction
\* of every block between that cursor and the present one has been credited.
C7_NoDepositSkippedAfterRestart ==
  (up /\ crashes > 0 /\ crashCursor # 0 /\ lastBlock # 0 /\ faults = 0) =>
    \A h \in (crashCursor + 1)..lastBlock :
      \A tx \in Deposits(h) : credited[tx.hash] >= 1

\* C8: the cursor is durable: after a restart the watcher starts from exactly
\* the last cursor it had advanced to before, not from head minus the depth.
C8_RestartResumesFromCursor ==
  (up /\ crashCursor # 0 /\ startCursor # 0) => startCursor = crashCursor

\* C9: every qualifying transaction of every block the cursor has been
\* advanced to or past is credited; the cursor does not advance past a block
\* with a credit that failed.
C9_CursorBehindCredits ==
  (up /\ lastBlock # 0) =>
    \A h \in (startCursor + 1)..lastBlock :
      \A tx \in Deposits(h) : credited[tx.hash] >= 1

\* C10: after a failed fetch of the head or of the block at height h the
\* watcher is in Backoff (then retrying), the cursor is unchanged and the next
\* block fetched is h.
C10_FetchFailureBacksOff ==
  fetchErr.kind # "none" =>
    /\ up
    /\ wpc \in {"backoff", "head"}
    /\ lastBlock + 1 = fetchErr.height

\* Every qualifying transaction of every block above the cursor the watcher
\* started from, up to the head, has had its credit issued.
AllDepositsIssued ==
  /\ startCursor # 0
  /\ \A h \in (startCursor + 1)..head :
       \A tx \in Deposits(h) : attempted[tx.hash] >= 1

\* C11: failed head or block fetches never stop the watcher: when fetches
\* succeed in the end, it comes to credit, and from then on has credited,
\* every qualifying deposit of every block at or below the chain head.
C11_WatcherSurvivesFetchErrors == <>[]AllDepositsIssued

\* The provider rows a node_id resolves to, whatever their status.
OfferOf(id) == {p \in ProviderRows : p.node_id = id}

\* The balance of its renter that the request of h goes by: the row as
\* SELECT balance is about to read it, or renterBal once it is read.
BalanceSeen(h) ==
  IF hs[h].pc = "read" THEN SelectBalance(agents, hs[h].RenterWallet)
  ELSE hs[h].renterBal

\* The request that h is serving takes a step of handleRent (and the process
\* does not die in it).
RentStep(h) ==
  Busy(h) /\ hs[h].kind = "rent" /\ hs'[h] # hs[h] /\ hs'[h].kind = "rent"

C13_UnknownProviderRejected ==
  \A h \in Handlers :
    (Returned(h) /\ OfferOf(hs[h].ProviderID) = {}) =>
      hs[h].resp # "rented" /\ ~hs[h].committed

\* C14: a Spend naming a provider_id whose row exists with a status other
\* than ONLINE is rejected, also when the renter can pay the price: it is not
\* answered "rented" and commits nothing.
C14_OfflineProviderRejected ==
  \A h \in Handlers :
    (/\ Returned(h)
     /\ OfferOf(hs[h].ProviderID) # {}
     /\ OfferOf(hs[h].ProviderID) \cap OnlineProviders = {}) =>
      hs[h].resp # "rented" /\ ~hs[h].committed

\* C15: for every unit_price from 0 to the largest int64 the fee, in the
\* divide-by-100 form and in the multiply-by-100-then-divide-by-10000 form,
\* is floor(unit_price / 100); fee and provider_net add up to the unit_price,
\* 0 <= fee <= unit_price, and fee and provider_net are within int64, so that
\* feeAmount.Int64() and priceWei - fee are exact.
C15_FeeArithmetic ==
  \A h \in Handlers :
    hs[h].pc \in {"feeRent", "feeJob"} =>
      LET price == hs[h].priceWei
          fee == hs[h].feeAmount
      IN /\ fee * 100 <= price /\ price < (fee + 1) * 100
         /\ Fee(price) = JobFee(price)
         /\ fee + ProviderNet(price) = price
         /\ 0 <= fee /\ fee <= price
         /\ Int64(fee) = fee
         /\ Int64(price - Int64(fee)) = ProviderNet(price)

\* C15 witness: the multiply-then-divide form was applied to the largest
\* int64, which is not a multiple of 100 and whose hundredfold is beyond int64.
C15_Witness ==
  \E h \in Handlers :
    /\ hs[h].pc = "feeJob"
    /\ hs[h].priceWei = MaxInt64
    /\ hs[h].priceWei % 100 # 0
    /\ hs[h].priceWei * JobFeeMul > MaxInt64
    /\ hs[h].feeAmount > 0

\* The effects of a Spend of renter for the node id with payee pw, from the
\* tables before the step to the tables after it.
SpendEffects(renter, id, pw) ==
  LET price == SelectPrice(id)
      fee == price \div 100
      n == Len(a2a_jobs')
  IN /\ SelectBalance(agents', renter) = SelectBalance(agents, renter) - price
     /\ pw \in DOMAIN agents'
     /\ SelectBalance(agents', pw) = SelectBalance(agents, pw) + (price - fee)
     /\ \A w \in (DOMAIN agents') \ {renter, pw} :
          w \in DOMAIN agents /\ agents'[w] = agents[w]
     /\ n = Len(a2a_jobs) + 1
     /\ SubSeq(a2a_jobs', 1, n - 1) = a2a_jobs
     /\ a2a_jobs'[n].from_wallet = renter
     /\ a2a_jobs'[n].to_wallet = pw
     /\ a2a_jobs'[n].fee_wei = fee
     /\ a2a_jobs'[n].amount_wei = price

\* C16: the step in which a Spend of a renter other than the payee, for a
\* provider that has an offer, is answered as successful ("rented") lowers
\* the renter's balance by the unit_price, raises the payee's by provider_net,
\* appends one row (renter, payee, fee, unit_price) to a2a_jobs and leaves
\* every other account as it was.
C16_SuccessfulSpendEffects ==
  [][\A h \in Handlers :
       (/\ RentStep(h)
        /\ hs'[h].pc = "done" /\ hs'[h].resp = "rented"
        /\ OfferOf(hs[h].ProviderID) # {}
        /\ hs[h].RenterWallet # hs[h].ProviderWallet)
       => SpendEffects(hs[h].RenterWallet, hs[h].ProviderID, hs[h].ProviderWallet)]_vars

\* h answers a request of the given kind in this step.
ReadStep(h, kind) == hs'[h] # hs[h] /\ hs'[h].pc = "done" /\ hs'[h].kind = kind

C19_RecentTransfersHonoursLimit ==
  [][\A h \in Handlers :
       ReadStep(h, "a2a-tx") =>
         LET len == Len(a2a_jobs)
             n == IF hs'[h].limit < len THEN hs'[h].limit ELSE len
         IN /\ Len(hs'[h].body) = n
            /\ \A k \in 1..n : hs'[h].body[k] = Listed(a2a_jobs[len - k + 1])
            /\ UNCHANGED <<dbvars, lastBlock>>]_vars

\* C20: in every state of the watcher, and after every failure of it, a
\* Spend and a GetBalance request can be taken up (as long as the behaviour
\* has requests left).
C20_WatcherNeverStopsClients ==
  requests < MaxRequests =>
    /\ ENABLED (\E h \in Handlers : SpendStart(h))
    /\ ENABLED (\E h \in Handlers : CheckRealBalance(h))

\* The payout wallets registered for a node id.
PayoutWallets(id) == {p.wallet : p \in OfferOf(id)}

\* C21: the account a successful Spend credits, and the to_wallet of its row
\* in a2a_jobs, is the payout wallet registered in providers for the
\* provider_id: every committed request for a node that has an offer paid
\* that offer's wallet, and every row names a registered payout wallet.
C21_PayeeIsRegisteredWallet ==
  /\ \A h \in Handlers :
       (Returned(h) /\ hs[h].committed /\ OfferOf(hs[h].ProviderID) # {}) =>
         hs[h].ProviderWallet \in PayoutWallets(hs[h].ProviderID)
  /\ \A i \in 1..Len(a2a_jobs) :
       \E p \in ProviderRows : a2a_jobs[i].to_wallet = p.wallet

\* The sum of the balances of all accounts.
TotalBalance == SumF(DOMAIN agents, agents)

\* The sum of the amounts of all applied credits.
TotalCredited == SumF(Hashes, [t \in Hashes |-> credited[t] * TxOf(t).value])

SpendDelta(rec, w) ==
  (IF w = rec.ProviderWallet THEN rec.priceWei - rec.feeAmount ELSE 0)
  - (IF w = rec.RenterWallet THEN rec.priceWei ELSE 0)

\* The commit step of the Spend of h that takes effect.
SpendCommits(h) ==
  /\ RentStep(h) /\ hs[h].pc = "commit" /\ hs'[h].committed

\* C23: a watcher credit interleaved with the steps of a Spend loses no
\* update: the commit of the Spend changes each balance it wrote by exactly
\* its debit or payout, counted from the balance the row holds at that moment
\* (every credit applied since the Spend read the balance included), and
\* leaves all other rows alone; a watcher credit adds exactly its amount.
C23_NoLostUpdate ==
  [][ /\ \A h \in Handlers :
           SpendCommits(h) =>
             /\ \A w \in DOMAIN hs[h].wr :
                  agents'[w] = SelectBalance(agents, w) + SpendDelta(hs[h], w)
             /\ \A w \in DOMAIN agents \ DOMAIN hs[h].wr : agents'[w] = agents[w]
      /\ \A t \in Hashes :
           credited'[t] # credited[t] =>
             /\ agents'[Hex(TxOf(t).from)] =
                  SelectBalance(agents, Hex(TxOf(t).from)) + TxOf(t).value
             /\ hs' = hs
    ]_vars

\* C23 witness: a Spend read the balance 200 of 0xA1, the watcher then
\* credited 100 to 0xA1, and the debit of 200 was taken from 300; the
\* transaction is about to commit.
C23_Witness ==
  \E h \in Handlers :
    /\ hs[h].kind = "rent" /\ hs[h].pc = "commit" /\ ~hs[h].txFailed
    /\ hs[h].RenterWallet = "0xA1" /\ hs[h].renterBal = 200 /\ hs[h].priceWei = 200
    /\ credited["t6"] = 1 /\ agents["0xA1"] = 300
    /\ hs[h].wr["0xA1"] = 100

\* The watcher looks at the transaction at position txi of block b.
ScanStep ==
  /\ up /\ up' /\ wpc = "scan" /\ txi <= Len(BlockAt(b))
  /\ (wpc' = "logdep" \/ txi' = txi + 1)

C25_SequentialCursor ==
  [][ (up /\ up') =>
        /\ wpc' \in {"fetch", "scan", "logdep"} => (b' = lastBlock' + 1 /\ b' <= current')
        /\ (lastBlock # 0 /\ lastBlock' # lastBlock) =>
             (lastBlock' = lastBlock + 1 /\ lastBlock' = b /\ wpc \in {"fetch", "scan"})
        /\ (wpc # "sleep" /\ wpc' = "sleep") => lastBlock' = current'
        /\ (wpc \in {"fetch", "scan", "logdep"} /\ b' # b) => lastBlock' = b
    ]_vars

\* C25 witness: a run that started with the cursor at 1 has, without a
\* restart, processed every block up to MaxHead and ended its cycle there.
C25_Witness ==
  /\ up /\ crashes = 0 /\ wpc = "sleep"
  /\ startCursor = 1 /\ lastBlock = MaxHead /\ current = MaxHead
  /\ credited["t7"] = 1

\* C26: the log of transfers is append-only: every step leaves the log it
\* found as a prefix of the log it leaves, the ids grow strictly along the
\* log, and a record is added exactly by the commit of a Spend (a rejected or
\* rolled-back Spend adds none).
C26_LogAppendOnly ==
  [][ /\ Len(a2a_jobs') >= Len(a2a_jobs)
      /\ SubSeq(a2a_jobs', 1, Len(a2a_jobs)) = a2a_jobs
      /\ \A i \in 1..(Len(a2a_jobs') - 1) : a2a_jobs'[i].id < a2a_jobs'[i + 1].id
      /\ (Len(a2a_jobs') = Len(a2a_jobs) + 1) <=> (\E h \in Handlers : SpendCommits(h))
    ]_vars

\* The spelling of a wallet address in lower case, as a browser wallet gives
\* it; Address.Hex() gives the mixed-case one.
Lower(w) ==
  CASE w = "0xA1" -> "0xa1"
    [] w = "0xB2" -> "0xb2"
    [] OTHER      -> w

\* The balance held for the address of w under any spelling.
AddressBalance(tbl, w) ==
  SumF({x \in DOMAIN tbl : Lower(x) = Lower(w)}, tbl)

\* C27: wallet addresses are case-normalized on every path: a Spend that
\* names a wallet in another letter case than the watcher credited it under
\* finds the credited balance, and no address has two accounts.
C27_WalletCaseNormalized ==
  [][ /\ \A h \in Handlers :
           (RentStep(h) /\ hs[h].pc = "read") =>
             hs'[h].renterBal = AddressBalance(agents, hs[h].RenterWallet)
      /\ \A x, y \in DOMAIN agents' : Lower(x) = Lower(y) => x = y
    ]_vars

\* C28: a Credit with a fresh token never fails for an amount above 0,
\* however large: with no statement failure injected, every credit the
\* watcher issued is applied, and the balance holds every issued amount.
C28_CreditNeverFails ==
  faults = 0 =>
    /\ \A t \in Hashes : credited[t] = attempted[t]
    /\ \A w \in WalletStrs :
         SelectBalance(agents, w) + Debited(w) - Received(w) = CreditSum(attempted, w)

\* C29: the rent handler answers rented only if its transfer is committed: a
\* request whose Begin, whose statements or whose Commit failed is answered
\* with an error.
C29_RentedOnlyIfCommitted ==
  \A h \in Handlers :
    (Returned(h) /\ hs[h].kind = "rent" /\ hs[h].resp = "rented") => hs[h].committed

=============================================================================
